---- MODULE Spec2Model ----
(***************************************************************************)
(* Stock-data pipeline of yfinance_aws_project: the CDK application        *)
(* (bin/stock-etl.ts and the stacks under lib/), the fetch and transform    *)
(* Lambda handlers, the master table and the three S3 buckets.              *)
(*                                                                         *)
(* Strings that the code slices or formats (dates, partition fields) are   *)
(* sequences of one-character strings, so that a slice is computed and not  *)
(* assumed.                                                                 *)
(***************************************************************************)
EXTENDS Integers, Sequences, FiniteSets, TLC

\* ------------------------------------------------------------------ bounds
MaxClock == 2
MaxInputs == 2
MaxFires == 1
MaxManual == 1
\* trading days of the tables the curated views are created from
MaxViewDays == 3
\* records of one S3 event
MaxRecords == 2
\* runs of the Glue trigger handler
MaxEvents == 2
\* runs of the view-creation step
MaxCreates == 2
\* polls of one query that find it queued or running
MaxPolls == 1
\* Athena calls that raise in one run of the script
MaxRaised == 1
\* pieces a SQL file text is put together from
MaxSegments == 3

\* ------------------------------------------------------------ value sets
Tickers == {"AAPL", "7203.T"}
Sectors == {"Technology", "Finance"}
Years == {2024}
Months == {1, 12}
Days == {2}
Prices == {100, 104}

NULL == "null"

\* --------------------------------------------------------- string helpers
DigitChar == <<"0", "1", "2", "3", "4", "5", "6", "7", "8", "9">>

RECURSIVE ZeroPad(_, _)
\* strftime-style zero padded decimal rendering of n in w characters
ZeroPad(n, w) ==
  IF w = 0 THEN <<>>
  ELSE ZeroPad(n \div 10, w - 1) \o <<DigitChar[(n % 10) + 1]>>

\* date.strftime('%Y-%m-%d')
FormatDate(y, m, d) ==
  ZeroPad(y, 4) \o <<"-">> \o ZeroPad(m, 2) \o <<"-">> \o ZeroPad(d, 2)

\* Python s[a:b] for 0 <= a <= b
PySlice(s, a, b) ==
  SubSeq(s, a + 1, IF b > Len(s) THEN Len(s) ELSE b)


VARIABLES
  master,       \* stock-master table: set of reference records, keyed by ticker
  raw,          \* raw bucket: set of objects [key, body]
  processed,    \* processed bucket: set of objects [key, body]
  clock,        \* wall clock of the transform invocations (ingested_at)
  invocations,  \* history: every transform invocation and how it ended
  writes,       \* history: every enriched row a transform has written, with its
                \* key and the master table the run has read
  nInput,       \* fetch invocations, manual uploads and master writes so far
  cfg,          \* the settings written in bin/stock-etl.ts
  pc,           \* the statement of bin/stock-etl.ts to run next
  app,          \* "running", "crashed", "synthesized" or "deployed"
  stacks,       \* the stacks constructed so far
  deps,         \* addDependency edges <<dependent, dependency>>
  resources,    \* the resources the constructed stacks define
  deployed,     \* the stacks CloudFormation has deployed
  pending,      \* invocations requested and not yet run
  log,          \* history: the invocations run, in order
  catalog,      \* partitions the crawler has registered in the Glue catalog
  views,        \* curated tables created
  curated,      \* rows of the curated tables, each with the table rows it is computed from
  jobRuns,      \* the job runs the Glue trigger function has started, in order
  responses,    \* history: every run of the Glue trigger handler and how it ended
  files,        \* the sql directory: file name -> text, or no file
  main,         \* where main() of the view-creation script is
  nView,        \* number of the view main() is at
  sql,          \* the text loadSQL has returned for that view
  queries,      \* Athena's query executions, in the order they were started
  results,      \* the results array of main(), each entry with the query it is about
                \* and the status executeQuery has ended on
  status,       \* the variable status of waitForQueryCompletion
  polls,        \* turns of its loop that found the query queued or running
  nRaised,      \* Athena calls of the run that have raised
  nFire,        \* schedule firings so far
  nManual,      \* manual invocations so far
  inflight      \* transform invocations that have read their input and not
                \* yet written their output

dataVars == <<master, raw, processed, clock, invocations, writes, nInput>>

appVars == <<cfg, pc, app, stacks, deps, resources, deployed>>

scriptVars == <<files, main, nView, sql, queries, results, status, polls, nRaised>>
runVars ==
  <<pending, log, catalog, views, curated, jobRuns, responses, nFire, nManual, inflight>>

\* ------------------------------------------------------------ master data
\* one item of the stock-master table (dynamodb/seed_data.json, sql stocks row)
RefRecord(ticker, name, sector, exchange, country) ==
  [ticker |-> ticker, name |-> name, sector |-> sector, exchange |-> exchange,
   country |-> country, is_active |-> TRUE]

\* the seed records of the tickers of the model
SeedData == {RefRecord("AAPL", "Apple Inc.", "Technology", "NASDAQ", "US")}

\* records a manual put-item / INSERT ... ON DUPLICATE KEY UPDATE may write
ManualRecords ==
  {RefRecord("AAPL", "Apple Inc.", "Tech", "NASDAQ", "US"),
   RefRecord("7203.T", "Toyota Motor", "Consumer", "TSE", "JP")}

\* a table that keeps the old item next to the new one
PutItem_append(table, item) == table \cup {item}

\* DynamoDB putItem on partition key ticker: the item replaces the old one
PutItem(table, item) == {r \in table : r.ticker # item.ticker} \cup {item}

RECURSIVE PutAll(_, _)
\* seedData.forEach(item => putItem(item)): one put per record
PutAll(table, items) ==
  IF items = {} THEN table
  ELSE LET item == CHOOSE i \in items : TRUE
       IN PutAll(PutItem(table, item), items \ {item})

\* INSERT INTO stocks ... VALUES rows ON DUPLICATE KEY UPDATE ..., ticker the
\* primary key: a row with a new ticker is inserted, a row with a known ticker
\* overwrites the columns of the stored row
InsertOnDuplicateKeyUpdate(table, rows) ==
  {r \in table : \A n \in rows : n.ticker # r.ticker} \cup rows

\* the reference records of a ticker (at most one, by the partition key)
Lookup(table, ticker) == {r \in table : r.ticker = ticker}

\* ------------------------------------------------------------- S3 buckets
\* PutObject on an unversioned bucket: the object under the key is replaced
S3Put(bucket, key, body) ==
  {o \in bucket : o.key # key} \cup {[key |-> key, body |-> body]}

HasKey(bucket, key) == \E o \in bucket : o.key = key

GetObject(bucket, key) == (CHOOSE o \in bucket : o.key = key).body

\* ----------------------------------------------------------- raw CSV rows
CsvColumns == <<"ticker", "date", "open", "high", "low", "close", "volume">>

\* one CSV line as the fetcher writes it: the seven fields in column order
CsvLine(ticker, date, price) == <<ticker, date, price, price, price, price, 1000>>

\* a line with one field too many
BadLine(ticker, date, price) == CsvLine(ticker, date, price) \o <<"x">>

\* fetch_stock: s3_key = f"raw/{ticker}/{year}/{month}/{day}/{ticker}_{date}.csv"
s3_key(ticker, year, month, day, date) ==
  [prefix |-> "raw/", dir |-> <<ticker, year, month, day>>,
   file |-> <<ticker, "_", date>>, ext |-> ".csv"]

\* the raw objects one fetch invocation writes: one single-line CSV per ticker
\* for which the market-data source returned a row
FetchedObjects(y, m, d, got, price) ==
  LET date == FormatDate(y, m, d)
  IN {[key |-> s3_key(t, ZeroPad(y, 4), ZeroPad(m, 2), ZeroPad(d, 2), date),
       body |-> <<CsvLine(t, date, price)>>] : t \in got}

\* ------------------------------------------------------ transform_parquet
\* df['year'] = df['date'].str[:4]
PartitionYear(date) == PySlice(date, 0, 4)
\* the month slice taken one character early
PartitionMonth_early(date) == PySlice(date, 4, 6)
\* df['month'] = df['date'].str[5:7]
PartitionMonth(date) == PySlice(date, 5, 7)
\* df['day'] = df['date'].str[8:10]
PartitionDay(date) == PySlice(date, 8, 10)

\* pandas.read_csv raises on a line with more fields than the header
ParseFails(body) == \E i \in 1..Len(body) : Len(body[i]) > Len(CsvColumns)

\* a join that falls back to some record of the table
LeftJoin_anyRecord(table, ticker) ==
  LET r == CHOOSE x \in table : (Lookup(table, ticker) # {} => x.ticker = ticker)
  IN IF table = {}
     THEN [sector |-> NULL, exchange |-> NULL, country |-> NULL]
     ELSE [sector |-> r.sector, exchange |-> r.exchange, country |-> r.country]

\* LEFT JOIN with the master on ticker: the attributes of the ticker's
\* record, or nulls when the ticker has none
LeftJoin(table, ticker) ==
  IF Lookup(table, ticker) = {}
  THEN [sector |-> NULL, exchange |-> NULL, country |-> NULL]
  ELSE LET r == CHOOSE x \in Lookup(table, ticker) : TRUE
       IN [sector |-> r.sector, exchange |-> r.exchange, country |-> r.country]

\* one enriched row: the CSV fields, the partition fields, the joined
\* attributes and the provenance fields
Enrich(line, table, now, src) ==
  LET j == LeftJoin(table, line[1])
  IN [ticker |-> line[1], date |-> line[2],
      year |-> PartitionYear(line[2]), month |-> PartitionMonth(line[2]),
      day |-> PartitionDay(line[2]),
      open |-> line[3], high |-> line[4], low |-> line[5], close |-> line[6],
      volume |-> line[7],
      sector |-> j.sector, exchange |-> j.exchange, country |-> j.country,
      ingested_at |-> now, source_file |-> src.file]

\* the sector segment of the partition path: the sector, or "unknown"
SectorOrUnknown(sector) == IF sector = NULL THEN "unknown" ELSE sector

\* a key that also carries the time of the run
output_key_stamped(e) ==
  [prefix |-> "",
   dir |-> <<SectorOrUnknown(e.sector), e.ticker, e.year, e.month, e.day>>,
   file |-> <<"data", e.ingested_at>>, ext |-> ".parquet"]

\* a key whose directory depends on the run
output_key_byRun(e) ==
  [prefix |-> "",
   dir |-> <<SectorOrUnknown(e.sector), e.ticker, e.year, e.month,
             ZeroPad(e.ingested_at, 2)>>,
   file |-> <<"data">>, ext |-> ".parquet"]

\* output_key = f"sector={sector}/ticker={ticker}/year={year}/month={month}/day={day}/data.parquet"
output_key(e) ==
  [prefix |-> "",
   dir |-> <<SectorOrUnknown(e.sector), e.ticker, e.year, e.month, e.day>>,
   file |-> <<"data">>, ext |-> ".parquet"]

\* the objects one successful transform writes: the enriched rows of the file
\* grouped by output key, one object per key
TransformOutput(body, table, now, src) ==
  LET rows == [i \in 1..Len(body) |-> Enrich(body[i], table, now, src)]
      keys == {output_key(rows[i]) : i \in 1..Len(rows)}
  IN {[key |-> k, body |-> SelectSeq(rows, LAMBDA e : output_key(e) = k)] : k \in keys}

\* a put that keeps the objects already under the keys
S3PutAll_keep(bucket, objs) == bucket \cup objs

\* a conditional put: an object is written only when its key is free
S3PutAll_ifAbsent(bucket, objs) ==
  bucket \cup {o \in objs : \A b \in bucket : b.key # o.key}

\* all objects of `objs` put into `bucket`, each replacing the object under its key
S3PutAll(bucket, objs) ==
  {o \in bucket : \A n \in objs : n.key # o.key} \cup objs

\* ---------------------------------------------------------------- handlers
\* fetch_stock lambda_handler: one invocation for the day (y, m, d)
FetchData(y, m, d, got, price) ==
  /\ nInput' = nInput + 1
  /\ raw' = S3PutAll(raw, FetchedObjects(y, m, d, got, price))
  /\ UNCHANGED <<master, processed, clock, invocations, writes>>

\* the objects a transform of the raw object under key k writes at time now
TransformWritten(k, now) ==
  IF ParseFails(GetObject(raw, k)) THEN {}
  ELSE TransformOutput(GetObject(raw, k), master, now, k)

\* transform_parquet lambda_handler on the raw object under key k
TransformData(k) ==
  /\ HasKey(raw, k)
  /\ LET body == GetObject(raw, k)
         now == clock + 1
     IN /\ clock' = now
        /\ IF ParseFails(body)
           THEN \* except Exception as e: print(...); raise
                /\ invocations' = invocations \cup
                     {[key |-> k, body |-> body, at |-> now, result |-> "error"]}
                /\ UNCHANGED <<processed, writes>>
           ELSE LET out == TransformWritten(k, now)
                IN /\ processed' = S3PutAll(processed, out)
                   /\ writes' = writes \cup
                        UNION {{[row |-> o.body[i], key |-> o.key, table |-> master] :
                                  i \in 1..Len(o.body)} : o \in out}
                   /\ invocations' = invocations \cup
                        {[key |-> k, body |-> body, at |-> now, result |-> "ok"]}
  /\ UNCHANGED <<master, raw, nInput>>

\* transform_parquet lambda_handler, first half: the invocation reads the raw
\* object and the master table and computes its output
TransformBegin(k) ==
  /\ clock < MaxClock
  /\ HasKey(raw, k)
  /\ clock' = clock + 1
  /\ inflight' = inflight \cup
       {[key |-> k, body |-> GetObject(raw, k), at |-> clock + 1,
         failed |-> ParseFails(GetObject(raw, k)),
         out |-> TransformWritten(k, clock + 1), table |-> master]}
  /\ UNCHANGED <<master, raw, processed, invocations, writes, nInput>>
  /\ UNCHANGED <<pending, log, catalog, views, curated, jobRuns, responses, nFire, nManual>>

\* transform_parquet lambda_handler, second half: the invocation r puts its
\* output, or re-raises its parse error; no lock and no condition on the put
TransformEnd(r) ==
  /\ r \in inflight
  /\ inflight' = inflight \ {r}
  /\ IF r.failed
     THEN /\ invocations' = invocations \cup
               {[key |-> r.key, body |-> r.body, at |-> r.at, result |-> "error"]}
          /\ UNCHANGED <<processed, writes>>
     ELSE /\ processed' = S3PutAll(processed, r.out)
          /\ writes' = writes \cup
               UNION {{[row |-> o.body[i], key |-> o.key, table |-> r.table] :
                         i \in 1..Len(o.body)} : o \in r.out}
          /\ invocations' = invocations \cup
               {[key |-> r.key, body |-> r.body, at |-> r.at, result |-> "ok"]}
  /\ UNCHANGED <<master, raw, clock, nInput>>
  /\ UNCHANGED <<pending, log, catalog, views, curated, jobRuns, responses, nFire, nManual>>

\* files a manual upload (aws s3 cp) may put into the raw bucket
UploadDate == FormatDate(2024, 1, 2)
CompactDate == ZeroPad(2024, 4) \o ZeroPad(1, 2) \o ZeroPad(2, 2)

UploadBodies ==
  {<<CsvLine("AAPL", UploadDate, 100), BadLine("AAPL", UploadDate, 100)>>,
   <<CsvLine("AAPL", UploadDate, 100), CsvLine("7203.T", UploadDate, 100)>>,
   <<CsvLine("AAPL", CompactDate, 100)>>,
   <<>>}

UploadKeys ==
  {s3_key("AAPL", ZeroPad(2024, 4), ZeroPad(1, 2), ZeroPad(2, 2), d) :
     d \in {UploadDate, CompactDate}}

\* ------------------------------------------------------- the CDK application
FetchFn == "FetchStockDataFunction"
TransformFn == "TransformCSVtoParquetFunction"
TriggerFn == "TriggerGlueJobOnS3Event"
CuratedFn == "CreateCuratedViewsFunction"
GlueJobName == "stock-data-csv-to-parquet"
CrawlerName == "stock-data-processed-crawler"

RawBucket == "StockDataRawBucket"
ProcessedBucket == "StockDataProcessedBucket"
CuratedBucket == "StockDataCuratedBucket"

\* a flag of the app as written: true, false, or not passed at all
FlagValues == {"true", "false", "undefined"}

\* a flag that is on unless it is passed as false
OrFalse_defaultTrue(flag) == IF flag = "undefined" THEN "true" ELSE flag

\* props.flag ?? false
OrFalse(flag) == IF flag = "undefined" THEN "false" ELSE flag

\* one resource (or output, grant, notification) of a stack
Res(kind, stack, name, state, bucket, prefix, suffix, target) ==
  [kind |-> kind, stack |-> stack, name |-> name, state |-> state,
   bucket |-> bucket, prefix |-> prefix, suffix |-> suffix, target |-> target]

Plain(kind, stack, name) == Res(kind, stack, name, "", "", "", "", "")

Output(stack, name, value) == Res("Output", stack, name, value, "", "", "", "")

Grant(stack, role, bucket, access) == Res("Grant", stack, role, access, bucket, "", "", "")

\* bucket.addEventNotification(OBJECT_CREATED, LambdaDestination(fn), filter)
Notification(stack, bucket, prefix, suffix, fn) ==
  Res("Notification", stack, "ObjectCreated", "", bucket, prefix, suffix, fn)

S3StackResources ==
  {Plain("Bucket", "S3Stack", RawBucket),
   Plain("Bucket", "S3Stack", ProcessedBucket),
   Plain("Bucket", "S3Stack", CuratedBucket),
   Plain("Bucket", "S3Stack", "AthenaResultsBucket")}

\* a Glue role that may also write the raw bucket
IamStackResources_glueWritesRaw ==
  {Plain("Role", "IamStack", "StockDataFetchLambdaRole"),
   Grant("IamStack", "StockDataFetchLambdaRole", RawBucket, "write"),
   Plain("Role", "IamStack", "StockDataGlueETLRole"),
   Grant("IamStack", "StockDataGlueETLRole", RawBucket, "readwrite"),
   Grant("IamStack", "StockDataGlueETLRole", ProcessedBucket, "readwrite")}

IamStackResources ==
  {Plain("Role", "IamStack", "StockDataFetchLambdaRole"),
   Grant("IamStack", "StockDataFetchLambdaRole", RawBucket, "write"),
   Plain("Role", "IamStack", "StockDataGlueETLRole"),
   Grant("IamStack", "StockDataGlueETLRole", RawBucket, "read"),
   Grant("IamStack", "StockDataGlueETLRole", ProcessedBucket, "readwrite")}

LambdaStackResources == {Plain("Function", "LambdaStack", FetchFn)}

\* a schedule that is enabled whatever the flag
ScheduleState_always(scheduleEnabled) == "ENABLED"

\* state: enabled ? 'ENABLED' : 'DISABLED', with enabled = props.scheduleEnabled ?? false
ScheduleState(scheduleEnabled) ==
  IF OrFalse(scheduleEnabled) = "true" THEN "ENABLED" ELSE "DISABLED"

SchedulerStackResources(scheduleEnabled) ==
  {Plain("Role", "SchedulerStack", "StockDataSchedulerRole"),
   Res("Schedule", "SchedulerStack", "DailyStockDataFetch",
       ScheduleState(scheduleEnabled), "", "", "", FetchFn),
   Output("SchedulerStack", "ScheduleState", ScheduleState(scheduleEnabled))}

DynamoDBStackResources == {Plain("Table", "DynamoDBStack", "stock-master")}

AuroraStackResources ==
  {Plain("Cluster", "AuroraStack", "stock-master-cluster"),
   Plain("Secret", "AuroraStack", "StockDatabaseCredentials")}

\* if (s3EventEnabled) rawBucket.addEventNotification(..., { prefix: 'raw/', suffix: '.csv' })
TransformNotifications(s3EventEnabled) ==
  IF OrFalse(s3EventEnabled) = "true"
  THEN {Notification("LambdaTransformStack", RawBucket, "raw/", ".csv", TransformFn)}
  ELSE {}

\* a role that may also write the raw bucket and the master table
TransformRoleGrants_readWrite ==
  {Grant("LambdaTransformStack", "StockTransformLambdaRole", RawBucket, "readwrite"),
   Grant("LambdaTransformStack", "StockTransformLambdaRole", ProcessedBucket, "write"),
   Grant("LambdaTransformStack", "StockTransformLambdaRole", "stock-master", "readwrite")}

\* rawBucket.grantRead, processedBucket.grantWrite, stockMasterTable.grantReadData
TransformRoleGrants ==
  {Grant("LambdaTransformStack", "StockTransformLambdaRole", RawBucket, "read"),
   Grant("LambdaTransformStack", "StockTransformLambdaRole", ProcessedBucket, "write"),
   Grant("LambdaTransformStack", "StockTransformLambdaRole", "stock-master", "read")}

LambdaTransformStackResources(s3EventEnabled) ==
  TransformRoleGrants \cup
  {Plain("Role", "LambdaTransformStack", "StockTransformLambdaRole"),
   Plain("Function", "LambdaTransformStack", TransformFn),
   Output("LambdaTransformStack", "S3EventStatus",
          IF OrFalse(s3EventEnabled) = "true" THEN "ENABLED" ELSE "DISABLED")}
    \cup TransformNotifications(s3EventEnabled)

\* the resources GlueStack creates before it builds the ETL job
GlueStackHead ==
  {Plain("Database", "GlueStack", "stock_data_db"),
   Plain("Bucket", "GlueStack", "GlueScriptBucket")}

\* if (s3NotificationEnabled) { role, TriggerGlueJobFunction,
\*   rawBucket.addEventNotification(..., { suffix: '.csv' }) }
GlueTrigger(s3EventNotificationEnabled) ==
  IF OrFalse(s3EventNotificationEnabled) = "true"
  THEN {Plain("Role", "GlueStack", "TriggerGlueJobRole"),
        Plain("Function", "GlueStack", TriggerFn),
        Notification("GlueStack", RawBucket, "", ".csv", TriggerFn)}
  ELSE {}

\* the ETL job, the crawler (no schedule, no trigger), the optional S3 trigger
\* and the outputs
GlueStackTail(s3EventNotificationEnabled) ==
  {Plain("Job", "GlueStack", GlueJobName),
   Res("Crawler", "GlueStack", CrawlerName, "ON_DEMAND", ProcessedBucket, "", "", ""),
   Output("GlueStack", "S3NotificationStatus",
          IF OrFalse(s3EventNotificationEnabled) = "true" THEN "ENABLED" ELSE "DISABLED")}
    \cup GlueTrigger(s3EventNotificationEnabled)

AthenaStackResources ==
  {Plain("Bucket", "AthenaStack", "AthenaQueryResultsBucket"),
   Plain("WorkGroup", "AthenaStack", "stock-data-analytics")}

\* LambdaCuratedStack: the views function and its processed-bucket notification
LambdaCuratedStackResources ==
  {Plain("Function", "LambdaCuratedStack", CuratedFn),
   Grant("LambdaCuratedStack", CuratedFn, ProcessedBucket, "read"),
   Grant("LambdaCuratedStack", CuratedFn, CuratedBucket, "readwrite"),
   Notification("LambdaCuratedStack", ProcessedBucket, "", ".parquet", CuratedFn)}

\* the statements of bin/stock-etl.ts in program order: the variant with the
\* useFreeTier flag, and the variant without it
Program(c) ==
  IF c.variant = "plain"
  THEN <<"S3Stack", "IamStack", "AuroraStack", "LambdaStack", "SchedulerStack",
         "GlueStack", "AthenaStack", "deps", "synth">>
  ELSE <<"S3Stack", "IamStack", "LambdaStack", "SchedulerStack">>
       \o (IF c.useFreeTier
           THEN <<"DynamoDBStack", "LambdaTransformStack", "deps", "GlueStack", "deps">>
           ELSE <<"AuroraStack", "GlueStack", "deps">>)
       \o <<"AthenaStack", "deps", "synth">>

\* the addDependency calls of the statement at position i
Dependencies(c, i) ==
  IF c.variant = "plain"
  THEN {<<"IamStack", "S3Stack">>, <<"LambdaStack", "IamStack">>,
        <<"SchedulerStack", "LambdaStack">>, <<"GlueStack", "IamStack">>,
        <<"GlueStack", "AuroraStack">>, <<"AthenaStack", "GlueStack">>}
  ELSE IF i = Len(Program(c)) - 1
  THEN {<<"IamStack", "S3Stack">>, <<"LambdaStack", "IamStack">>,
        <<"SchedulerStack", "LambdaStack">>}
  ELSE IF ~c.useFreeTier
  THEN {<<"GlueStack", "IamStack">>, <<"GlueStack", "AuroraStack">>}
  ELSE IF Program(c)[i - 1] = "GlueStack"
  THEN {<<"GlueStack", "LambdaTransformStack">>}
  ELSE {<<"DynamoDBStack", "S3Stack">>, <<"LambdaTransformStack", "DynamoDBStack">>}

\* the props bin/stock-etl.ts passes to GlueStack have an Aurora cluster and secret
AuroraPropsDefined(c) == c.variant = "plain" \/ ~c.useFreeTier

\* what `new XStack(app, id, props)` adds for the settings c
StackResources(id, c) ==
  CASE id = "S3Stack" -> S3StackResources
    [] id = "IamStack" -> IamStackResources
    [] id = "LambdaStack" -> LambdaStackResources
    [] id = "SchedulerStack" -> SchedulerStackResources(c.scheduleEnabled)
    [] id = "DynamoDBStack" -> DynamoDBStackResources
    [] id = "LambdaTransformStack" -> LambdaTransformStackResources(c.s3EventEnabled)
    [] id = "AuroraStack" -> AuroraStackResources
    [] id = "AthenaStack" -> AthenaStackResources
    [] id = "GlueStack" ->
         GlueStackHead \cup GlueStackTail(c.s3EventNotificationEnabled)

\* the statement to run
Stmt == IF pc <= Len(Program(cfg)) THEN Program(cfg)[pc] ELSE "end"

StackIds ==
  {"S3Stack", "IamStack", "LambdaStack", "SchedulerStack", "DynamoDBStack",
   "LambdaTransformStack", "AuroraStack", "AthenaStack"}

\* const xStack = new XStack(app, 'XStack', {...}) for every stack but GlueStack
NewStack(id) ==
  /\ app = "running"
  /\ Stmt = id
  /\ stacks' = stacks \cup {id}
  /\ resources' = resources \cup StackResources(id, cfg)
  /\ pc' = pc + 1
  /\ UNCHANGED <<cfg, app, deps, deployed>>
  /\ UNCHANGED scriptVars
  /\ UNCHANGED dataVars
  /\ UNCHANGED runVars

\* new GlueStack(...): the constructor reads props.auroraSecret.secretArn and
\* props.auroraCluster.clusterEndpoint when it builds the job's arguments, which
\* throws a TypeError when the props are undefined
NewGlueStack ==
  /\ app = "running"
  /\ Stmt = "GlueStack"
  /\ stacks' = stacks \cup {"GlueStack"}
  /\ IF AuroraPropsDefined(cfg)
     THEN /\ resources' = resources \cup StackResources("GlueStack", cfg)
          /\ pc' = pc + 1
          /\ app' = app
     ELSE /\ resources' = resources \cup GlueStackHead
          /\ pc' = pc
          /\ app' = "crashed"
  /\ UNCHANGED <<cfg, deps, deployed>>
  /\ UNCHANGED scriptVars
  /\ UNCHANGED dataVars
  /\ UNCHANGED runVars

\* a block of xStack.addDependency(yStack) calls
AddDependencies ==
  /\ app = "running"
  /\ Stmt = "deps"
  /\ deps' = deps \cup Dependencies(cfg, pc)
  /\ pc' = pc + 1
  /\ UNCHANGED <<cfg, app, stacks, resources, deployed>>
  /\ UNCHANGED scriptVars
  /\ UNCHANGED dataVars
  /\ UNCHANGED runVars

\* app.synth()
Synth ==
  /\ app = "running"
  /\ Stmt = "synth"
  /\ app' = "synthesized"
  /\ pc' = pc + 1
  /\ UNCHANGED <<cfg, stacks, deps, resources, deployed>>
  /\ UNCHANGED scriptVars
  /\ UNCHANGED dataVars
  /\ UNCHANGED runVars

\* the cross-stack references of the app: <<consumer, producer>> for every
\* resource of one stack that the constructor of another stack reads from its
\* props (AthenaStack is passed processedBucket and does not read it)
Uses(c) ==
  {<<"IamStack", "S3Stack">>, <<"LambdaStack", "S3Stack">>,
   <<"LambdaStack", "IamStack">>, <<"SchedulerStack", "LambdaStack">>,
   <<"GlueStack", "S3Stack">>, <<"GlueStack", "IamStack">>,
   <<"AthenaStack", "GlueStack">>}
    \cup (IF c.useFreeTier
          THEN {<<"LambdaTransformStack", "S3Stack">>,
                <<"LambdaTransformStack", "DynamoDBStack">>}
          ELSE {<<"GlueStack", "AuroraStack">>})

\* an order that follows the addDependency calls only
DeployOrder_explicitOnly == deps

\* the order CloudFormation deploys in: the addDependency edges and the edges
\* the CDK adds for the cross-stack references of the constructed stacks
DeployOrder ==
  deps \cup {u \in Uses(cfg) : u[1] \in stacks /\ u[2] \in stacks}

\* the master table after the first deployment: DynamoDBStack with the seed
\* custom resources puts every seed record, DynamoDBStack without them and the
\* Aurora stack put nothing
SeededOnCreate(table) ==
  IF "DynamoDBStack" \in stacks THEN {table, PutAll(table, SeedData)} ELSE {table}

\* cdk deploy --all deploys one stack whose dependencies are all deployed
DeployStack(id) ==
  /\ app = "synthesized"
  /\ id \in stacks \ deployed
  /\ \A e \in DeployOrder : e[1] = id => e[2] \in deployed
  /\ deployed' = deployed \cup {id}
  /\ master' \in (IF id = "DynamoDBStack" THEN SeededOnCreate(master) ELSE {master})
  /\ UNCHANGED <<cfg, pc, app, stacks, deps, resources>>
  /\ UNCHANGED scriptVars
  /\ UNCHANGED <<raw, processed, clock, invocations, writes, nInput>>
  /\ UNCHANGED runVars

\* cdk deploy --all has deployed every stack of the synthesized app
Deploy ==
  /\ app = "synthesized"
  /\ deployed = stacks
  /\ app' = "deployed"
  /\ UNCHANGED <<cfg, pc, stacks, deps, resources, deployed>>
  /\ UNCHANGED scriptVars
  /\ UNCHANGED dataVars
  /\ UNCHANGED runVars

\* ------------------------------------------------------ the deployed app
\* the key of an invocation that names no object
NoKey == [prefix |-> "", dir |-> <<>>, file |-> <<>>, ext |-> ""]

\* an invocation request: the function, job or crawler to run, what asked for it
\* ("schedule", "manual", "s3" or "lambda"), the object it is about and the
\* number of the schedule firing or manual command the cascade started from
Event(fn, cause, key, root) == [fn |-> fn, cause |-> cause, key |-> key, root |-> root]

\* a notification without a filter
Matches_any(n, k) == TRUE

\* filter of an S3 notification: { prefix, suffix }, each optional
Matches(n, k) ==
  /\ n.prefix = "" \/ k.prefix = n.prefix
  /\ n.suffix = "" \/ k.ext = n.suffix

\* the notifications attached to a bucket
NotificationsOf(bucket) ==
  {r \in resources : r.kind = "Notification" /\ r.bucket = bucket}

\* the invocations S3 requests when objs are created in bucket
S3Events(bucket, objs, root) ==
  UNION {{Event(n.target, "s3", o.key, root) : o \in {p \in objs : Matches(n, p.key)}} :
           n \in NotificationsOf(bucket)}

\* what the fetcher may get from the market-data API for the scheduled day
FetchResults == {{}, {"AAPL"}}

\* the views of SQL_VIEWS
FiveViews ==
  {"sector_daily_summary", "ticker_monthly_summary", "sector_performance_ranking",
   "cross_sector_comparison", "volatility_analysis"}

\* ------------------------------------------------------- curated tables
\* stock_data_processed: the rows of every object of the processed bucket
TableRows(bucket) == UNION {{o.body[i] : i \in 1..Len(o.body)} : o \in bucket}

\* place of a character in the collation of date strings
CharRank(c) ==
  IF c = "-" THEN 0 ELSE 1 + CHOOSE d \in 0..9 : DigitChar[d + 1] = c

\* ORDER BY date: a sorts strictly before b
DateBefore(a, b) ==
  \E i \in 1..Len(a) :
    /\ i <= Len(b)
    /\ SubSeq(a, 1, i - 1) = SubSeq(b, 1, i - 1)
    /\ CharRank(a[i]) < CharRank(b[i])

\* MAX(date) of a non-empty set of rows
MaxDate(rows) ==
  LET e == CHOOSE x \in rows : \A y \in rows : ~DateBefore(x.date, y.date)
  IN e.date

\* one row of a curated table: its grouping columns, its count column and
\* the table rows it is computed from
ViewRow(view, sector, ticker, date, year, month, count, from) ==
  [view |-> view, sector |-> sector, ticker |-> ticker, date |-> date,
   year |-> year, month |-> month, count |-> count, from |-> from]

\* a sector filter that lets every row through
HasSector_all(e) == TRUE

\* WHERE sector IS NOT NULL
HasSector(e) == e.sector # NULL

\* the rows of a table grouped BY sector, date, year, month
SectorDateGroups(view, rows) ==
  LET Key(e) == <<e.sector, e.date, e.year, e.month>>
  IN {LET from == {e \in rows : Key(e) = g}
      IN ViewRow(view, g[1], NULL, g[2], g[3], g[4],
                 Cardinality({e.ticker : e \in from}), from) :
        g \in {Key(e) : e \in rows}}

\* CREATE TABLE sector_daily_summary AS SELECT ... GROUP BY sector, date, ...
sector_daily_summary(table) ==
  SectorDateGroups("sector_daily_summary", {e \in table : HasSector(e)})

\* CREATE TABLE cross_sector_comparison AS SELECT ... GROUP BY sector, date, ...
cross_sector_comparison(table) ==
  SectorDateGroups("cross_sector_comparison", {e \in table : HasSector(e)})

\* the rows of the same ticker before e in date order
Earlier(rows, e) ==
  {x \in rows : x.ticker = e.ticker /\ DateBefore(x.date, e.date)}

\* LAG(close, 1) OVER (PARTITION BY ticker ORDER BY date): the row the lag
\* reads, none for the first row of a ticker
LagRow(rows, e) ==
  {x \in Earlier(rows, e) : \A y \in Earlier(rows, e) : ~DateBefore(x.date, y.date)}

\* CREATE TABLE sector_performance_ranking AS SELECT ... one row per table row
\* (every row the transform writes carries the close of its CSV line)
sector_performance_ranking(table) ==
  LET kept == {e \in table : HasSector(e)}
  IN {ViewRow("sector_performance_ranking", e.sector, e.ticker, e.date, e.year,
              e.month, 1, {e} \cup LagRow(kept, e)) : e \in kept}

\* CREATE TABLE ticker_monthly_summary AS SELECT ... GROUP BY ticker, sector,
\* exchange, country, year, month
ticker_monthly_summary(table) ==
  LET kept == {e \in table : e.ticker # NULL}
      Key(e) == <<e.ticker, e.sector, e.exchange, e.country, e.year, e.month>>
  IN {LET from == {e \in kept : Key(e) = g}
      IN ViewRow("ticker_monthly_summary", g[2], g[1], MaxDate(from), g[5], g[6],
                 Cardinality(from), from) :
        g \in {Key(e) : e \in kept}}

\* ROWS BETWEEN 19 PRECEDING AND CURRENT ROW
Preceding20 == 19

\* the window of e: e and the rows of its ticker among the n before it
Window(rows, e, n) ==
  {e} \cup {x \in Earlier(rows, e) :
              Cardinality({y \in Earlier(rows, e) : DateBefore(x.date, y.date)}) < n}

\* STDDEV(daily_return) over the window is the sample deviation: it is NULL
\* unless two rows of the window have a daily_return, and the first row of
\* a ticker has none
Volatility20dNotNull(rows, e) ==
  Cardinality({x \in Window(rows, e, Preceding20) : LagRow(rows, x) # {}}) >= 2

\* CREATE TABLE volatility_analysis AS WITH daily_returns ..., rolling_stats ...
\* SELECT ... WHERE volatility_20d IS NOT NULL
volatility_analysis(table) ==
  LET daily_returns == table
      W(e) == Window(daily_returns, e, Preceding20)
  IN {ViewRow("volatility_analysis", e.sector, e.ticker, e.date, e.year, e.month,
              Cardinality(W(e)),
              W(e) \cup UNION {LagRow(daily_returns, x) : x \in W(e)}) :
        e \in {x \in daily_returns : Volatility20dNotNull(daily_returns, x)}}

\* the curated-views function: every statement of SQL_VIEWS run on the table
CreateViews(table) ==
  sector_daily_summary(table) \cup ticker_monthly_summary(table)
    \cup sector_performance_ranking(table) \cup cross_sector_comparison(table)
    \cup volatility_analysis(table)

\* a statement that rebuilds the table from the current data
CreateTableIfNotExists_refresh(existing, rows, v, table) ==
  {r \in rows : r.view # v} \cup {r \in CreateViews(table) : r.view = v}

\* CREATE TABLE IF NOT EXISTS v ... AS SELECT: the rows of the curated tables
\* after the statement, existing being the tables that exist before it
CreateTableIfNotExists(existing, rows, v, table) ==
  IF v \in existing THEN rows
  ELSE rows \cup {r \in CreateViews(table) : r.view = v}

\* the things of the deployed app that can be started by name
Startable ==
  {r.name : r \in {q \in resources : q.kind \in {"Function", "Job", "Crawler"}}}

\* number of the next schedule firing or manual command
NextRoot == nFire + nManual + 1

\* a CfnJob without executionProperty: Glue runs one run of the job at a time
MaxConcurrentRuns == 1

\* the runs of the ETL job that have been started and have not ended
RunningJobRuns == {e \in pending : e.fn = GlueJobName}

\* record['s3'] of an S3 event record
Record(bucket, key) == [bucket |-> bucket, key |-> key]

\* f's3://{bucket}/{key}'
S3Path(bucket, key) == <<"s3://", bucket, "/", key>>

\* glue_client.start_job_run(JobName=job_name, Arguments={...})
JobRun(record) ==
  [JobName |-> GlueJobName, S3_INPUT_PATH |-> S3Path(record.bucket, record.key)]

RECURSIVE lambda_handler_skipStarted(_, _)
\* a handler that leaves out the records a job run was already started for
lambda_handler_skipStarted(records, running) ==
  IF records = <<>>
  THEN [started |-> <<>>, statusCode |-> 200, error |-> "none"]
  ELSE IF \E i \in 1..Len(jobRuns) : jobRuns[i] = JobRun(Head(records))
  THEN lambda_handler_skipStarted(Tail(records), running)
  ELSE IF running >= MaxConcurrentRuns
  THEN [started |-> <<>>, statusCode |-> 0, error |-> "ConcurrentRunsExceededException"]
  ELSE LET rest == lambda_handler_skipStarted(Tail(records), running + 1)
       IN [started |-> <<JobRun(Head(records))>> \o rest.started,
           statusCode |-> rest.statusCode, error |-> rest.error]

RECURSIVE lambda_handler(_, _)
\* TriggerGlueJobOnS3Event: one start_job_run per record of the event, in
\* order, then statusCode 200; a start_job_run that Glue refuses raises
\* and ends the handler, the runs started before it stay started
lambda_handler(records, running) ==
  IF records = <<>>
  THEN [started |-> <<>>, statusCode |-> 200, error |-> "none"]
  ELSE IF running >= MaxConcurrentRuns
  THEN [started |-> <<>>, statusCode |-> 0, error |-> "ConcurrentRunsExceededException"]
  ELSE LET rest == lambda_handler(Tail(records), running + 1)
       IN [started |-> <<JobRun(Head(records))>> \o rest.started,
           statusCode |-> rest.statusCode, error |-> rest.error]

\* one run of the handler on an event, asked for by the requests in done: its
\* job runs are started and its outcome is recorded
TriggerGlueJob(records, root, done) ==
  LET r == lambda_handler(records, Cardinality(RunningJobRuns))
  IN /\ jobRuns' = jobRuns \o r.started
     /\ responses' = responses \cup
          {[records |-> records, first |-> Len(jobRuns) + 1,
            count |-> Len(r.started), statusCode |-> r.statusCode,
            error |-> r.error]}
     /\ pending' = (pending \ done)
          \cup {Event(GlueJobName, "lambda", r.started[i].S3_INPUT_PATH[4], root) :
                  i \in 1..Len(r.started)}

\* the EventBridge schedule fires its target
ScheduleFire ==
  /\ app = "deployed"
  /\ nFire < MaxFires
  /\ \E s \in resources :
       /\ s.kind = "Schedule"
       /\ s.state = "ENABLED"
       /\ pending' = pending \cup {Event(s.target, "schedule", NoKey, NextRoot)}
  /\ nFire' = nFire + 1
  /\ UNCHANGED <<log, catalog, views, curated, jobRuns, responses, nManual, inflight>>
  /\ UNCHANGED dataVars
  /\ UNCHANGED appVars
  /\ UNCHANGED scriptVars

\* aws lambda invoke / aws glue start-job-run / aws glue start-crawler
ManualStart(fn, key) ==
  /\ app = "deployed"
  /\ nManual < MaxManual
  /\ fn \in Startable
  /\ IF fn \in {TransformFn, GlueJobName} THEN HasKey(raw, key) ELSE key = NoKey
  /\ fn = GlueJobName => Cardinality(RunningJobRuns) < MaxConcurrentRuns
  /\ pending' = pending \cup {Event(fn, "manual", key, NextRoot)}
  /\ nManual' = nManual + 1
  /\ UNCHANGED <<log, catalog, views, curated, jobRuns, responses, nFire, inflight>>
  /\ UNCHANGED dataVars
  /\ UNCHANGED appVars
  /\ UNCHANGED scriptVars

\* one requested run of a function, of the ETL job or of the crawler
Invoke(e) ==
  /\ app = "deployed"
  /\ e \in pending
  /\ log' = log \cup {e}
  /\ CASE e.fn = FetchFn ->
            \E got \in FetchResults :
              /\ FetchData(2024, 1, 2, got, 100)
              /\ pending' = (pending \ {e}) \cup
                   S3Events(RawBucket, FetchedObjects(2024, 1, 2, got, 100), e.root)
              /\ UNCHANGED <<catalog, views, curated>>
       [] e.fn \in {TransformFn, GlueJobName} ->
            /\ TransformData(e.key)
            /\ pending' = (pending \ {e}) \cup
                 S3Events(ProcessedBucket, TransformWritten(e.key, clock + 1), e.root)
            /\ UNCHANGED <<catalog, views, curated>>
       [] e.fn = TriggerFn ->
            /\ IF e.cause = "s3"
               THEN TriggerGlueJob(<<Record(RawBucket, e.key)>>, e.root, {e})
               ELSE \* a payload without 'Records': event['Records'] raises
                    /\ pending' = pending \ {e}
                    /\ responses' = responses \cup
                         {[records |-> <<>>, first |-> Len(jobRuns) + 1, count |-> 0,
                           statusCode |-> 0, error |-> "KeyError"]}
                    /\ UNCHANGED jobRuns
            /\ UNCHANGED <<catalog, views, curated>>
            /\ UNCHANGED dataVars
       [] e.fn = CrawlerName ->
            /\ catalog' = {o.key.dir : o \in processed}
            /\ pending' = pending \ {e}
            /\ UNCHANGED <<views, curated>>
            /\ UNCHANGED dataVars
       [] e.fn = CuratedFn ->
            /\ views' = FiveViews
            /\ curated' = UNION {CreateTableIfNotExists(views, curated, v,
                                                        TableRows(processed)) :
                                   v \in FiveViews}
            /\ pending' = pending \ {e}
            /\ UNCHANGED catalog
            /\ UNCHANGED dataVars
  /\ e.fn # TriggerFn => UNCHANGED <<jobRuns, responses>>
  /\ UNCHANGED <<nFire, nManual, inflight>>
  /\ UNCHANGED appVars
  /\ UNCHANGED scriptVars

\* ------------------------------------------- scripts/create-curated-views.js
\* const ACCOUNT_ID = process.env.AWS_ACCOUNT_ID || '123456789012'
ACCOUNT_ID == "123456789012"

\* const CURATED_BUCKET = `stock-data-curated-${ACCOUNT_ID}`
CURATED_BUCKET == <<"stock-data-curated-", ACCOUNT_ID>>

\* the text {name} of a SQL file; a text is a sequence of tokens
Placeholder(name) == <<"{", name, "}">>

RECURSIVE Replace_first(_, _, _)
\* text.replace(pattern, by) without the g flag: the first occurrence only
Replace_first(text, pat, by) ==
  IF Len(text) < Len(pat) THEN text
  ELSE IF SubSeq(text, 1, Len(pat)) = pat
  THEN by \o SubSeq(text, Len(pat) + 1, Len(text))
  ELSE <<Head(text)>> \o Replace_first(Tail(text), pat, by)

RECURSIVE Replace(_, _, _)
\* text.replace(/pattern/g, by): every occurrence, left to right, the
\* inserted text is not scanned again
Replace(text, pat, by) ==
  IF Len(text) < Len(pat) THEN text
  ELSE IF SubSeq(text, 1, Len(pat)) = pat
  THEN by \o Replace(SubSeq(text, Len(pat) + 1, Len(text)), pat, by)
  ELSE <<Head(text)>> \o Replace(Tail(text), pat, by)

\* loadSQL on the text fs.readFileSync has returned
loadSQL(text) ==
  Replace(Replace(text, Placeholder("CURATED_BUCKET"), CURATED_BUCKET),
          Placeholder("ACCOUNT_ID"), <<ACCOUNT_ID>>)

\* the files main() loads, in its order
SqlFiles ==
  <<"create_sector_view.sql", "create_ticker_monthly_view.sql",
    "create_sector_ranking_view.sql", "create_cross_sector_view.sql",
    "create_volatility_view.sql">>

\* the table each statement of main() creates
ScriptViews ==
  <<"sector_daily_summary", "ticker_monthly_summary", "sector_performance_ranking",
    "cross_sector_comparison", "volatility_analysis">>

\* a file of the sql directory
File(exists, text) == [exists |-> exists, text |-> text]

\* the text of the CTAS files: a comment and the external_location both name
\* the bucket placeholder
CtasText ==
  Placeholder("CURATED_BUCKET") \o <<"CREATE TABLE IF NOT EXISTS">>
    \o Placeholder("CURATED_BUCKET")

\* the sql directory with every file present, each holding text
AllFiles(text) == [f \in {SqlFiles[i] : i \in 1..Len(SqlFiles)} |-> File(TRUE, text)]

\* the script is not running
NoScript ==
  /\ files = AllFiles(CtasText)
  /\ main = "idle"
  /\ nView = 0
  /\ sql = <<>>
  /\ queries = <<>>
  /\ results = <<>>
  /\ status = "RUNNING"
  /\ polls = 0
  /\ nRaised = 0

\* the states Athena reports for a query execution
QueryStates == {"QUEUED", "RUNNING", "SUCCEEDED", "FAILED", "CANCELLED"}

\* a loop that does not wait
Waits_never(st) == FALSE

\* while (status === 'RUNNING' || status === 'QUEUED')
Waits(st) == st = "RUNNING" \/ st = "QUEUED"

\* a check that lets a cancelled query through
Throws_failedOnly(st) == st = "FAILED"

\* if (status === 'FAILED' || status === 'CANCELLED') throw
Throws(st) == st = "FAILED" \/ st = "CANCELLED"

\* node scripts/create-curated-views.js: main() up to the first loadSQL
RunScript ==
  /\ main = "idle"
  /\ main' = "load"
  /\ nView' = 1
  /\ results' = <<>>
  /\ UNCHANGED <<files, sql, queries, status, polls, nRaised>>

\* const xSQL = loadSQL(file): fs.readFileSync throws when there is no file,
\* main() rejects and main().catch(console.error) ends the script
LoadSQL ==
  /\ main = "load"
  /\ LET f == files[SqlFiles[nView]]
     IN IF f.exists
        THEN /\ sql' = loadSQL(f.text)
             /\ main' = "start"
        ELSE /\ main' = "rejected"
             /\ UNCHANGED sql
  /\ UNCHANGED <<files, nView, queries, results, status, polls, nRaised>>

\* executeQuery has returned success for the query at place q of queries
\* (0: none was started), st being the last status of its wait:
\* results.push({ name, success }) and the next statement
Returned(success, q, st) ==
  /\ results' = Append(results, [name |-> ScriptViews[nView], success |-> success,
                                 query |-> q, status |-> st])
  /\ IF nView < Len(SqlFiles)
     THEN main' = "load" /\ nView' = nView + 1
     ELSE main' = "summary" /\ UNCHANGED nView

\* athena.send(new StartQueryExecutionCommand(params)): Athena queues the
\* query, or the call raises and executeQuery returns false
StartQuery ==
  /\ main = "start"
  /\ \/ /\ queries' = Append(queries, [view |-> nView, state |-> "QUEUED"])
        /\ main' = "poll"
        /\ status' = "RUNNING"
        /\ polls' = 0
        /\ UNCHANGED <<nView, results, nRaised>>
     \/ /\ nRaised < MaxRaised
        /\ nRaised' = nRaised + 1
        /\ Returned(FALSE, 0, "none")
        /\ UNCHANGED <<queries, status, polls>>
  /\ UNCHANGED <<files, sql>>

\* one turn of the loop of waitForQueryCompletion in which GetQueryExecution
\* raises: the error leaves executeQuery through its catch
PollRaises ==
  /\ main = "poll"
  /\ nRaised < MaxRaised
  /\ nRaised' = nRaised + 1
  /\ Returned(FALSE, Len(queries), status)
  /\ UNCHANGED <<files, sql, queries, status, polls>>

\* one turn of the loop of waitForQueryCompletion: the wait, then
\* GetQueryExecution reports the state of the query; polls counts the turns
\* that found it queued or running, up to MaxPolls
Poll ==
  /\ main = "poll"
  /\ LET q == Len(queries)
     IN /\ status' = queries[q].state
        /\ polls' = IF Waits(status') /\ polls < MaxPolls THEN polls + 1 ELSE polls
        /\ IF Throws(status') THEN Returned(FALSE, q, status')
           ELSE IF Waits(status') THEN UNCHANGED <<main, nView, results>>
           ELSE Returned(TRUE, q, status')
  /\ UNCHANGED <<files, sql, queries, nRaised>>

\* the result summary: results.forEach(console.log)
Summary ==
  /\ main = "summary"
  /\ main' = "end"
  /\ UNCHANGED <<files, nView, sql, queries, results, status, polls, nRaised>>

\* Athena moves a query on: queued to running, running to succeeded (the
\* statement takes effect), queued or running to failed or cancelled
AthenaProgress(q) ==
  /\ q \in 1..Len(queries)
  /\ queries[q].state \in {"QUEUED", "RUNNING"}
  /\ \E next \in QueryStates \ {"QUEUED"} :
       /\ next = "SUCCEEDED" => queries[q].state = "RUNNING"
       /\ next = "RUNNING" => queries[q].state = "QUEUED"
       /\ queries' = [queries EXCEPT ![q].state = next]
       /\ IF next = "SUCCEEDED"
          THEN /\ views' = views \cup {ScriptViews[queries[q].view]}
               /\ curated' = CreateTableIfNotExists(views, curated,
                                                    ScriptViews[queries[q].view],
                                                    TableRows(processed))
          ELSE UNCHANGED <<views, curated>>
  /\ UNCHANGED <<files, main, nView, sql, results, status, polls, nRaised>>

\* ------------------------------------------------------------ specifications
vars ==
  <<master, raw, processed, clock, invocations, writes, nInput,
    cfg, pc, app, stacks, deps, resources, deployed,
    pending, log, catalog, views, curated, jobRuns, responses, nFire, nManual, inflight,
    files, main, nView, sql, queries, results, status, polls, nRaised>>

\* the settings as written in bin/stock-etl.ts without the useFreeTier flag
PlainDefault ==
  [variant |-> "plain", useFreeTier |-> FALSE, scheduleEnabled |-> "false",
   s3EventEnabled |-> "false", s3EventNotificationEnabled |-> "false"]

\* the settings as written in bin/stock-etl.ts with the useFreeTier flag
FlagDefault ==
  [variant |-> "flag", useFreeTier |-> TRUE, scheduleEnabled |-> "false",
   s3EventEnabled |-> "false", s3EventNotificationEnabled |-> "false"]

\* every edit of the settings; a flag the variant does not read keeps its value
Settings ==
  {c \in [variant : {"plain", "flag"}, useFreeTier : BOOLEAN,
          scheduleEnabled : FlagValues, s3EventEnabled : FlagValues,
          s3EventNotificationEnabled : FlagValues] :
     /\ c.variant = "plain" => ~c.useFreeTier
     /\ ~c.useFreeTier => c.s3EventEnabled = "false"}

DataInit ==
  /\ master \in {{}, SeedData}
  /\ raw = {}
  /\ processed = {}
  /\ clock = 0
  /\ invocations = {}
  /\ writes = {}
  /\ nInput = 0

TriggersInit ==
  /\ pending = {}
  /\ log = {}
  /\ catalog = {}
  /\ views = {}
  /\ curated = {}
  /\ jobRuns = <<>>
  /\ responses = {}
  /\ nFire = 0
  /\ nManual = 0
  /\ inflight = {}

\* nothing has run
RunInit == TriggersInit /\ NoScript

\* the script has not started
ScriptInit ==
  /\ pc = 1
  /\ app = "running"
  /\ stacks = {}
  /\ deps = {}
  /\ resources = {}
  /\ deployed = {}

\* the handlers on their own, run against the stores
Init == DataInit /\ RunInit /\ ScriptInit /\ cfg = FlagDefault

\* the application script started under any edit of its settings
AppInit == DataInit /\ RunInit /\ ScriptInit /\ cfg \in Settings

\* one fetch invocation
Fetch(y, m, d, got, price) ==
  /\ nInput < MaxInputs
  /\ FetchData(y, m, d, got, price)
  /\ UNCHANGED appVars
  /\ UNCHANGED scriptVars
  /\ UNCHANGED runVars

\* one transform invocation
Transform(k) ==
  /\ clock < MaxClock
  /\ TransformData(k)
  /\ UNCHANGED appVars
  /\ UNCHANGED scriptVars
  /\ UNCHANGED runVars

\* a manual upload of a CSV file to the raw bucket
UploadRaw(key, body) ==
  /\ nInput < MaxInputs
  /\ nInput' = nInput + 1
  /\ raw' = S3Put(raw, key, body)
  /\ UNCHANGED <<master, processed, clock, invocations, writes>>
  /\ UNCHANGED appVars
  /\ UNCHANGED scriptVars
  /\ UNCHANGED runVars

\* a seed or manual write of one reference record
MasterPut(item) ==
  /\ nInput < MaxInputs
  /\ nInput' = nInput + 1
  /\ master' = PutItem(master, item)
  /\ UNCHANGED <<raw, processed, clock, invocations, writes>>
  /\ UNCHANGED appVars
  /\ UNCHANGED scriptVars
  /\ UNCHANGED runVars

FetchStep ==
  \E y \in Years, m \in Months, d \in Days, got \in SUBSET Tickers, p \in Prices :
    Fetch(y, m, d, got, p)

TransformStep == \E o \in raw : Transform(o.key)

UploadStep == \E k \in UploadKeys, b \in UploadBodies : UploadRaw(k, b)

MasterPutStep == \E item \in SeedData \cup ManualRecords : MasterPut(item)

\* a rule that empties the object and keeps its key
Expire_truncate(bucket, key) == S3Put(bucket, key, <<>>)

\* lifecycle rule DeleteOldRawData: the object under the key is deleted
Expire(bucket, key) == {o \in bucket : o.key # key}

\* the raw bucket's lifecycle rule acts on an object that is 90 days old
LifecycleExpire(k) ==
  /\ HasKey(raw, k)
  /\ raw' = Expire(raw, k)
  /\ UNCHANGED <<master, processed, clock, invocations, writes, nInput>>
  /\ UNCHANGED appVars
  /\ UNCHANGED scriptVars
  /\ UNCHANGED runVars

LifecycleStep == \E o \in raw : LifecycleExpire(o.key)

\* one run of sql/aurora_setup.sql against the master database
AuroraSetup ==
  /\ nInput < MaxInputs
  /\ nInput' = nInput + 1
  /\ master' = InsertOnDuplicateKeyUpdate(master, SeedData)
  /\ UNCHANGED <<raw, processed, clock, invocations, writes>>
  /\ UNCHANGED appVars
  /\ UNCHANGED scriptVars
  /\ UNCHANGED runVars

NewStackStep == \E id \in StackIds : NewStack(id)

DeployStackStep == \E id \in stacks : DeployStack(id)

ManualStartStep ==
  \E fn \in Startable, key \in {NoKey} \cup {o.key : o \in raw} : ManualStart(fn, key)

InvokeStep == \E e \in pending : Invoke(e)

Next ==
  \/ FetchStep
  \/ TransformStep
  \/ UploadStep
  \/ MasterPutStep
  \/ AuroraSetup
  \/ LifecycleStep

\* the data pipeline with its environment: manual uploads and master writes
Spec == Init /\ [][Next]_vars

TransformBeginStep ==
  /\ \E o \in raw : TransformBegin(o.key)
  /\ UNCHANGED appVars
  /\ UNCHANGED scriptVars

TransformEndStep ==
  /\ \E r \in inflight : TransformEnd(r)
  /\ UNCHANGED appVars
  /\ UNCHANGED scriptVars

RaceNext == FetchStep \/ TransformBeginStep \/ TransformEndStep

\* fetch invocations and transform invocations that overlap in time
SpecRace == Init /\ [][RaceNext]_vars

PipelineNext == FetchStep \/ TransformStep

\* fetch and transform invocations only, over a fixed master snapshot
SpecPipeline == Init /\ [][PipelineNext]_vars

RECURSIVE SeqOf(_)
\* the elements of a finite set in some order
SeqOf(S) ==
  IF S = {} THEN <<>>
  ELSE LET x == CHOOSE y \in S : TRUE IN <<x>> \o SeqOf(S \ {x})

\* the CSV lines of the days before the views are created: one per ticker a day
ViewLines ==
  {CsvLine(t, FormatDate(2024, 1, 1 + d), 100 + d) : t \in Tickers, d \in 1..MaxViewDays}

\* the processed bucket after a transform of any selection of those lines,
\* read with the seeded master: AAPL has a sector, 7203.T has none
ViewTables ==
  {S3PutAll({}, TransformOutput(SeqOf(L), SeedData, 1,
                                s3_key("AAPL", ZeroPad(2024, 4), ZeroPad(1, 2),
                                       ZeroPad(2, 2), UploadDate))) :
     L \in SUBSET ViewLines}

ViewsInit ==
  /\ master = SeedData
  /\ raw = {}
  /\ processed \in ViewTables
  /\ clock = 1
  /\ invocations = {}
  /\ writes = {}
  /\ nInput = 0
  /\ RunInit
  /\ ScriptInit
  /\ cfg = FlagDefault

\* the curated-views function is run by hand and runs its CREATE TABLE IF NOT
\* EXISTS statements
CreateViewsStep ==
  /\ Cardinality(log) < MaxCreates
  /\ log' = log \cup {Event(CuratedFn, "manual", NoKey, Cardinality(log) + 1)}
  /\ views' = FiveViews
  /\ curated' = UNION {CreateTableIfNotExists(views, curated, v, TableRows(processed)) :
                         v \in FiveViews}
  /\ UNCHANGED <<pending, catalog, jobRuns, responses, nFire, nManual, inflight>>
  /\ UNCHANGED dataVars
  /\ UNCHANGED appVars
  /\ UNCHANGED scriptVars

ViewsNext == CreateViewsStep

\* the curated tables created from a populated processed table
SpecViews == ViewsInit /\ [][ViewsNext]_vars

\* the plain settings with the raw-bucket notification switched on
TriggerSettings == [PlainDefault EXCEPT !.s3EventNotificationEnabled = "true"]

\* the stacks bin/stock-etl.ts constructs under settings c
ProgramStacks(c) ==
  {Program(c)[i] : i \in 1..Len(Program(c))} \ {"deps", "synth"}

\* the deployed app under TriggerSettings, the raw bucket holding the files
\* of one fetched day
TriggerInit ==
  /\ master = SeedData
  /\ raw = FetchedObjects(2024, 1, 2, Tickers, 100)
  /\ processed = {}
  /\ clock = 0
  /\ invocations = {}
  /\ writes = {}
  /\ nInput = 0
  /\ RunInit
  /\ cfg = TriggerSettings
  /\ pc = Len(Program(cfg)) + 1
  /\ app = "deployed"
  /\ stacks = ProgramStacks(cfg)
  /\ deps = Dependencies(cfg, Len(Program(cfg)) - 1)
  /\ resources = UNION {StackResources(id, cfg) : id \in ProgramStacks(cfg)}
  /\ deployed = stacks

\* the events the handler is run on: up to MaxRecords records of raw objects
TriggerEvents ==
  UNION {[1..n -> {Record(RawBucket, o.key) : o \in raw}] : n \in 0..MaxRecords}

\* the trigger function is invoked with an S3 event
TriggerInvoke ==
  /\ app = "deployed"
  /\ TriggerFn \in Startable
  /\ Cardinality(responses) < MaxEvents
  /\ \E records \in TriggerEvents : TriggerGlueJob(records, Len(jobRuns) + 1, {})
  /\ UNCHANGED <<log, catalog, views, curated, nFire, nManual, inflight>>
  /\ UNCHANGED dataVars
  /\ UNCHANGED appVars
  /\ UNCHANGED scriptVars

TriggerNext == TriggerInvoke \/ InvokeStep

\* the deployed Glue trigger function run on S3 events, and the job runs it starts
SpecTrigger == TriggerInit /\ [][TriggerNext]_vars

\* a populated processed table, and in the raw bucket a file of a day that a
\* transform has not read yet
RecreateInit ==
  /\ master = SeedData
  /\ raw = FetchedObjects(2024, 1, 2, {"AAPL"}, 104)
  /\ processed \in ViewTables
  /\ clock = 1
  /\ invocations = {}
  /\ writes = {}
  /\ nInput = 0
  /\ RunInit
  /\ ScriptInit
  /\ cfg = FlagDefault

RecreateNext == CreateViewsStep \/ TransformStep

\* the view-creation step run before and after observations are added
SpecRecreate == RecreateInit /\ [][RecreateNext]_vars

\* everything but the script and the curated tables
NotTheScript ==
  <<master, raw, processed, clock, invocations, writes, nInput,
    cfg, pc, app, stacks, deps, resources, deployed,
    pending, log, catalog, jobRuns, responses, nFire, nManual, inflight>>

RunScriptStep == RunScript /\ UNCHANGED <<NotTheScript, views, curated>>

LoadSQLStep == LoadSQL /\ UNCHANGED <<NotTheScript, views, curated>>

StartQueryStep == StartQuery /\ UNCHANGED <<NotTheScript, views, curated>>

PollRaisesStep == PollRaises /\ UNCHANGED <<NotTheScript, views, curated>>

PollStep == Poll /\ UNCHANGED <<NotTheScript, views, curated>>

SummaryStep == Summary /\ UNCHANGED <<NotTheScript, views, curated>>

AthenaStep == (\E q \in 1..Len(queries) : AthenaProgress(q)) /\ UNCHANGED NotTheScript

\* the pieces the texts of the SQL files are put together from
Segments ==
  {Placeholder("CURATED_BUCKET"), Placeholder("ACCOUNT_ID"), <<"{">>, <<"}">>,
   <<"CURATED_BUCKET">>, <<"ACCOUNT_ID">>, <<"SELECT">>}

RECURSIVE Texts(_)
\* the texts of at most n segments
Texts(n) ==
  IF n = 0 THEN {<<>>}
  ELSE Texts(n - 1) \cup {t \o g : t \in Texts(n - 1), g \in Segments}

\* the stores as the script finds them: the processed table of the first day
ScriptData ==
  /\ master = SeedData
  /\ raw = {}
  /\ processed \in {p \in ViewTables : Cardinality(TableRows(p)) = Cardinality(Tickers)
                                        /\ \A e \in TableRows(p) : e.day = ZeroPad(2, 2)}
  /\ clock = 1
  /\ invocations = {}
  /\ writes = {}
  /\ nInput = 0

\* the script is about to be run on a sql directory holding any text
LoadInit ==
  /\ ScriptData
  /\ TriggersInit
  /\ ScriptInit
  /\ cfg = FlagDefault
  /\ files \in {AllFiles(t) : t \in Texts(MaxSegments)}
  /\ main = "idle"
  /\ nView = 0
  /\ sql = <<>>
  /\ queries = <<>>
  /\ results = <<>>
  /\ status = "RUNNING"
  /\ polls = 0
  /\ nRaised = 0

LoadNext == RunScriptStep \/ LoadSQLStep

\* the start of the script up to its first loadSQL, on any file text
SpecLoad == LoadInit /\ [][LoadNext]_vars

\* the sql directory with at most one of the files missing
SqlDirectories ==
  {AllFiles(CtasText)} \cup
  {[AllFiles(CtasText) EXCEPT ![SqlFiles[i]].exists = FALSE] : i \in 1..Len(SqlFiles)}

\* the script is about to be run
ScriptRunInit ==
  /\ ScriptData
  /\ TriggersInit
  /\ ScriptInit
  /\ cfg = FlagDefault
  /\ files \in SqlDirectories
  /\ main = "idle"
  /\ nView = 0
  /\ sql = <<>>
  /\ queries = <<>>
  /\ results = <<>>
  /\ status = "RUNNING"
  /\ polls = 0
  /\ nRaised = 0

ScriptNext ==
  \/ RunScriptStep
  \/ LoadSQLStep
  \/ StartQueryStep
  \/ PollRaisesStep
  \/ PollStep
  \/ SummaryStep
  \/ AthenaStep

\* one run of the view-creation script against Athena
SpecScript == ScriptRunInit /\ [][ScriptNext]_vars

\* the same run when node keeps running the script, every wait of 2 s ends
\* and Athena brings every query to an end; no call is bound to raise
SpecScriptFair ==
  /\ ScriptRunInit
  /\ [][ScriptNext]_vars
  /\ WF_vars(RunScriptStep)
  /\ WF_vars(LoadSQLStep)
  /\ WF_vars(StartQueryStep)
  /\ WF_vars(PollStep)
  /\ WF_vars(SummaryStep)
  /\ WF_vars(AthenaStep)

\* the settings that deploy with every trigger they read switched on
CascadeSettings ==
  {c \in Settings : /\ AuroraPropsDefined(c)
                    /\ c.scheduleEnabled = "true"
                    /\ c.s3EventNotificationEnabled = "true"}

\* every addDependency call of the script under settings c
ProgramDependencies(c) ==
  UNION {Dependencies(c, i) : i \in {j \in 1..Len(Program(c)) : Program(c)[j] = "deps"}}

\* the app just deployed under one of the CascadeSettings
CascadeInit ==
  /\ DataInit
  /\ RunInit
  /\ inflight = {}
  /\ cfg \in CascadeSettings
  /\ pc = Len(Program(cfg)) + 1
  /\ app = "deployed"
  /\ stacks = ProgramStacks(cfg)
  /\ deps = ProgramDependencies(cfg)
  /\ resources = UNION {StackResources(id, cfg) : id \in ProgramStacks(cfg)}
  /\ deployed = stacks

CascadeNext ==
  \/ ScheduleFire
  \/ ManualStartStep
  \/ InvokeStep

\* the deployed app with its schedule and its notifications switched on
SpecCascade == CascadeInit /\ [][CascadeNext]_vars

\* the same app when Lambda, Glue and S3 carry out every requested invocation
SpecCascadeFair == SpecCascade /\ WF_vars(InvokeStep)

AppNext ==
  \/ NewStackStep
  \/ NewGlueStack
  \/ AddDependencies
  \/ Synth
  \/ DeployStackStep
  \/ Deploy
  \/ ScheduleFire
  \/ ManualStartStep
  \/ InvokeStep

\* the application: the script, its deployment, and the deployed triggers
SpecApp == AppInit /\ [][AppNext]_vars

\* ------------------------------------------------------------------ claims
\* the enriched rows the processed bucket holds, each with its object and place
StoredRows ==
  UNION {{[key |-> o.key, idx |-> i, row |-> o.body[i]] : i \in 1..Len(o.body)} :
           o \in processed}

\* the five partition values of an enriched row
Five(e) == <<e.sector, e.ticker, e.year, e.month, e.day>>

\* the raw object (key, body) has been transformed successfully at two times
TwiceTransformed(key, body) ==
  \E a, b \in invocations :
    /\ a.key = key /\ b.key = key
    /\ a.body = body /\ b.body = body
    /\ a.result = "ok" /\ b.result = "ok"
    /\ a.at # b.at

\* C1: two written rows of known tickers with the same (sector, ticker, year,
\* month, day) are written to the same partition directory, whatever the run's
\* time, the source file and the other rows of the file.
C1_PartitionPathDeterministic ==
  \A w1, w2 \in writes :
    (w1.row.sector # NULL /\ Five(w1.row) = Five(w2.row))
      => w1.key.dir = w2.key.dir

C1_Witness ==
  \E w1, w2 \in writes :
    /\ w1.row.sector # NULL
    /\ Five(w1.row) = Five(w2.row)
    /\ w1.row.ingested_at # w2.row.ingested_at
    /\ w1.row.source_file # w2.row.source_file

\* C2: after fetch and transform invocations only, the processed bucket holds at
\* most one enriched observation per (ticker, date).
C2_OneObservationPerTickerDate ==
  \A a, b \in StoredRows :
    (a.row.ticker = b.row.ticker /\ a.row.date = b.row.date) => a = b

C2_Witness ==
  \E o \in raw : TwiceTransformed(o.key, o.body) /\ Len(o.body) > 0

\* the stored observations of the (ticker, date) of a raw line
StoredFor(line) ==
  {s \in StoredRows : s.row.ticker = line[1] /\ s.row.date = line[2]}

\* C3 as stated: after two runs over the same raw file the processed bucket holds
\* duplicate enriched rows for the rows of that file.
C3_DuplicatesAfterRerun ==
  \A o \in raw :
    TwiceTransformed(o.key, o.body)
      => \A i \in 1..Len(o.body) : Cardinality(StoredFor(o.body[i])) >= 2

\* C3 amended: with the master unchanged, the second run over the same raw file
\* overwrites the object of the first, and the bucket holds exactly one enriched
\* row for each row of that file.
C3_RerunOverwrites ==
  \A o \in raw :
    TwiceTransformed(o.key, o.body)
      => \A i \in 1..Len(o.body) : Cardinality(StoredFor(o.body[i])) = 1

C3_Witness ==
  \E o \in raw :
    /\ TwiceTransformed(o.key, o.body)
    /\ Len(o.body) > 0
    /\ \A s \in StoredFor(o.body[1]) : s.row.ingested_at = clock

\* C4: a row whose ticker has no reference record when it is transformed is
\* written with null sector, exchange and country into the "unknown" partition,
\* never with or into the sector of another ticker's record.
C4_UnknownTickerNotMisattributed ==
  \A w \in writes :
    Lookup(w.table, w.row.ticker) = {}
      => /\ w.row.sector = NULL /\ w.row.exchange = NULL /\ w.row.country = NULL
         /\ w.key.dir[1] \notin {r.sector : r \in w.table}

C4_Witness ==
  \E w \in writes : Lookup(w.table, w.row.ticker) = {} /\ w.table # {}

\* C5: a row of a known ticker with a date YYYY-MM-DD is written with year YYYY,
\* month MM and day DD, zero padded, and the sector of the ticker's record.
C5_PartitionFieldsFromDate ==
  \A w \in writes :
    \A y \in Years, m \in Months, d \in Days :
      (w.row.date = FormatDate(y, m, d) /\ Lookup(w.table, w.row.ticker) # {})
        => /\ w.row.year = ZeroPad(y, 4)
           /\ w.row.month = ZeroPad(m, 2)
           /\ w.row.day = ZeroPad(d, 2)
           /\ \E r \in Lookup(w.table, w.row.ticker) : w.row.sector = r.sector

C5_Witness ==
  \E w \in writes :
    /\ w.row.ticker = "AAPL"
    /\ w.row.date = <<"2", "0", "2", "4", "-", "0", "1", "-", "0", "2">>
    /\ w.row.sector = "Technology"
    /\ w.row.year = <<"2", "0", "2", "4">>
    /\ w.row.month = <<"0", "1">>
    /\ w.row.day = <<"0", "2">>

\* C6: a malformed line does not abort the run: every well-formed line of a
\* transformed file is written by that run.
C6_MalformedRowDoesNotAbort ==
  \A inv \in invocations :
    \A i \in 1..Len(inv.body) :
      Len(inv.body[i]) = Len(CsvColumns)
        => \E w \in writes :
             /\ w.row.ticker = inv.body[i][1]
             /\ w.row.date = inv.body[i][2]
             /\ w.row.ingested_at = inv.at


\* the settings are the ones written in the repository
DefaultSettings == cfg \in {PlainDefault, FlagDefault}

ScheduledRunAtRest(root) ==
  /\ pending = {}
  /\ \E e \in log : e.root = root /\ e.fn = FetchFn /\ e.cause = "schedule"
  /\ \E e \in log : e.root = root /\ e.fn \in {GlueJobName, TransformFn}

\* C8: with scheduleEnabled and s3EventNotificationEnabled true, once the
\* cascade of a schedule firing has transformed the fetched file and come to
\* rest, the crawler has run in that cascade and the catalog holds every
\* partition of the processed bucket.
C8_ScheduleRunsWholePipeline ==
  (/\ cfg.scheduleEnabled = "true"
   /\ cfg.s3EventNotificationEnabled = "true"
   /\ app = "deployed")
    => \A root \in 1..(nFire + nManual) :
         ScheduledRunAtRest(root) =>
           /\ \E e \in log : e.root = root /\ e.fn = CrawlerName
           /\ \A o \in processed : o.key.dir \in catalog

\* C9: in the deployed app, once a .parquet object is in the processed bucket
\* and no invocation is outstanding, S3 has invoked the curated-views function
\* and the five views exist.
C9_ParquetCreatesCuratedViews ==
  (/\ app = "deployed"
   /\ pending = {}
   /\ \E o \in processed : o.key.ext = ".parquet")
    => /\ \E e \in log : e.fn = CuratedFn /\ e.cause = "s3"
       /\ views = FiveViews

\* the stacks the settings are said to select
SelectedStacks(c) ==
  {"S3Stack", "IamStack", "LambdaStack", "SchedulerStack", "GlueStack", "AthenaStack"}
    \cup (IF c.useFreeTier THEN {"DynamoDBStack", "LambdaTransformStack"}
          ELSE {"AuroraStack"})

\* C10: when the script has ended, the app contains exactly the stacks that
\* useFreeTier selects: the six common stacks plus DynamoDBStack and
\* LambdaTransformStack (true) or AuroraStack (false).
C10_FreeTierSelectsStacks ==
  app # "running" => stacks = SelectedStacks(cfg)

\* C11: in the free-tier configuration the GlueStack constructor completes,
\* and the stack holds the Glue database and the crawler and no ETL job.
C11_FreeTierGlueStackConstructed ==
  (cfg.useFreeTier /\ "GlueStack" \in stacks) =>
    /\ app # "crashed"
    /\ \E r \in resources : r.stack = "GlueStack" /\ r.kind = "Database"
    /\ \E r \in resources : r.stack = "GlueStack" /\ r.kind = "Crawler"
    /\ \A r \in resources : r.stack = "GlueStack" => r.kind # "Job"

\* the deployment procedure (synth, then deploy) has come to its end
DeploymentEnded == app \in {"crashed", "deployed"}

\* C12: in the free-tier configuration, when the deployment has ended the
\* master table holds every record of the seed data.
C12_DeploySeedsMaster ==
  (cfg.useFreeTier /\ DeploymentEnded) => \A s \in SeedData : s \in master

\* C13: the master data holds at most one reference record per ticker.
C13_OneRecordPerTicker ==
  \A a, b \in master : a.ticker = b.ticker => a = b

C13_Witness ==
  /\ master = {RefRecord("AAPL", "Apple Inc.", "Tech", "NASDAQ", "US")}
  /\ nInput = 2
  /\ raw = {}

\* what the grants among res allow a role to do with a bucket or table
RoleAccess(res, role, target) ==
  {g.state : g \in {r \in res : r.kind = "Grant" /\ r.name = role /\ r.bucket = target}}

\* the transform role may read the master table and the raw bucket, write the
\* processed bucket, and nothing else
TransformRoleReadOnly ==
  \A f \in FlagValues :
    LET res == LambdaTransformStackResources(f)
        role == "StockTransformLambdaRole"
    IN /\ RoleAccess(res, role, "stock-master") = {"read"}
       /\ RoleAccess(res, role, RawBucket) = {"read"}
       /\ RoleAccess(res, role, ProcessedBucket) = {"write"}
       /\ \A g \in res : (g.kind = "Grant" /\ g.name = role) =>
            g.bucket \in {"stock-master", RawBucket, ProcessedBucket}

\* C14: the transform role is granted read on the master table, read on the raw
\* bucket and write on the processed bucket only, and a transform invocation
\* (the step that advances the transform clock) leaves the master table and the
\* raw bucket as they were.
C14_TransformLeavesMasterAndRaw ==
  [][TransformRoleReadOnly /\ (clock' # clock => (master' = master /\ raw' = raw))]_vars

C14_Witness ==
  \E inv \in invocations :
    /\ inv.result = "ok"
    /\ master # {}
    /\ HasKey(raw, inv.key)
    /\ \E w \in writes : w.row.ingested_at = inv.at /\ w.row.sector # NULL

\* C15 as stated: a raw object once written stays as it is, so every raw object
\* a transform has read is still in the raw bucket with the content it had.
C15_RawImmutable ==
  \A inv \in invocations :
    \E o \in raw : o.key = inv.key /\ o.body = inv.body

\* C15: a transform leaves the raw bucket as it is; an object of the raw bucket
\* goes away only when the lifecycle rule deletes it (its key is gone) or when
\* a later write under the same key (a fetch for the same ticker and day, or an
\* upload) replaces it.
C15_RawChangedOnlyByRewriteOrExpiry ==
  [][/\ clock' # clock => raw' = raw
     /\ \A o \in raw :
          \/ o \in raw'
          \/ ~HasKey(raw', o.key)
          \/ (HasKey(raw', o.key) /\ nInput' = nInput + 1)]_vars

C15_Witness ==
  \E inv \in invocations :
    /\ inv.result = "ok"
    /\ \E o \in raw : o.key = inv.key /\ o.body # inv.body /\ Len(o.body) > 0

RECURSIVE Peel(_, _)
\* what is left of nodes after removing, again and again, a node with no edge
\* of R into the rest: empty exactly when R has no cycle among nodes
Peel(nodes, R) ==
  LET free == {n \in nodes : \A e \in R : e[1] = n => e[2] \notin nodes}
  IN IF free = {} THEN nodes ELSE Peel(nodes \ free, R)

Constructed(id) == id \in stacks /\ ~(id = "GlueStack" /\ app = "crashed")

\* the value of an output of a stack, as a set (empty when there is none)
OutputOf(stack, name) ==
  {r.state : r \in {q \in resources : q.kind = "Output" /\ q.stack = stack /\ q.name = name}}

\* "ENABLED" or "DISABLED"
Status(on) == IF on THEN "ENABLED" ELSE "DISABLED"

\* the raw-bucket notification that a stack attaches for the function fn
RawNotification(stack, fn) ==
  \E r \in resources :
    /\ r.kind = "Notification" /\ r.stack = stack
    /\ r.bucket = RawBucket /\ r.target = fn

\* C17: in every constructed stack the trigger is on exactly when its flag is
\* true (off when false or omitted), and the status output tells the state:
\* the schedule state for scheduleEnabled; the raw-bucket notification of
\* LambdaTransformStack for s3EventEnabled; the raw-bucket notification, the
\* trigger function and its role of GlueStack for s3EventNotificationEnabled.
C17_TriggerOnIffFlagTrue ==
  /\ Constructed("SchedulerStack") =>
       /\ \A r \in resources : r.kind = "Schedule" =>
            /\ r.state = Status(cfg.scheduleEnabled = "true")
            /\ OutputOf("SchedulerStack", "ScheduleState") = {r.state}
       /\ \E r \in resources : r.kind = "Schedule"
  /\ Constructed("LambdaTransformStack") =>
       /\ RawNotification("LambdaTransformStack", TransformFn)
            <=> cfg.s3EventEnabled = "true"
       /\ OutputOf("LambdaTransformStack", "S3EventStatus") =
            {Status(RawNotification("LambdaTransformStack", TransformFn))}
  /\ Constructed("GlueStack") =>
       /\ RawNotification("GlueStack", TriggerFn)
            <=> cfg.s3EventNotificationEnabled = "true"
       /\ Plain("Function", "GlueStack", TriggerFn) \in resources
            <=> cfg.s3EventNotificationEnabled = "true"
       /\ Plain("Role", "GlueStack", "TriggerGlueJobRole") \in resources
            <=> cfg.s3EventNotificationEnabled = "true"
       /\ OutputOf("GlueStack", "S3NotificationStatus") =
            {Status(RawNotification("GlueStack", TriggerFn))}

C17_Witness ==
  /\ app = "deployed"
  /\ cfg.scheduleEnabled = "undefined"
  /\ cfg.s3EventNotificationEnabled = "true"
  /\ OutputOf("SchedulerStack", "ScheduleState") = {"DISABLED"}
  /\ OutputOf("GlueStack", "S3NotificationStatus") = {"ENABLED"}
  /\ \E e \in log : e.fn = TriggerFn /\ e.cause = "s3"

\* C18: nothing holds back the write of a transform invocation: whatever other
\* invocations are in flight or have finished, the step that ends an invocation
\* leaves that invocation's objects in the processed bucket.
C18_ConcurrentWritesProceed ==
  [][\A r \in inflight :
       (r \notin inflight' /\ ~r.failed) => \A o \in r.out : o \in processed']_vars

\* two invocations for one partition have overlapped, both have written, and the
\* partition holds the output of the one that started first
C18_Witness ==
  /\ inflight = {}
  /\ \E o \in processed, w \in writes :
       /\ w.key = o.key
       /\ Len(o.body) > 0
       /\ o.body[1].ingested_at < w.row.ingested_at
       /\ o.body[1].close # w.row.close

\* the table rows without a sector
NullSectorRows == {e \in TableRows(processed) : e.sector = NULL}

\* row e of the table is among the rows some row of curated table v is computed from
ContributesTo(e, v) == \E r \in curated : r.view = v /\ e \in r.from

\* the curated tables that filter on the sector
SectorViews ==
  {"sector_daily_summary", "sector_performance_ranking", "cross_sector_comparison"}

\* the observations the table holds for the ticker of row e
ObservationsOf(e) == {x \in TableRows(processed) : x.ticker = e.ticker}

\* C19 as stated: once the five curated tables are created, a table row
\* with a null sector contributes to none of the three sector tables, and
\* with its ticker and close present it contributes to both
\* ticker_monthly_summary and volatility_analysis.
C19_NullSectorRowInBothTickerViews ==
  views = FiveViews =>
    \A e \in NullSectorRows :
      /\ \A v \in SectorViews : ~ContributesTo(e, v)
      /\ e.ticker # NULL =>
           /\ ContributesTo(e, "ticker_monthly_summary")
           /\ ContributesTo(e, "volatility_analysis")

\* C19: once the five curated tables are created, a table row with a null
\* sector contributes to none of the three sector tables; with its ticker
\* present it contributes to ticker_monthly_summary; and it contributes to
\* volatility_analysis exactly when its ticker has at least three
\* observations, the first two of a ticker having no 20-day volatility.
C19_NullSectorRowInTickerViews ==
  views = FiveViews =>
    \A e \in NullSectorRows :
      /\ \A v \in SectorViews : ~ContributesTo(e, v)
      /\ e.ticker # NULL => ContributesTo(e, "ticker_monthly_summary")
      /\ ContributesTo(e, "volatility_analysis")
           <=> Cardinality(ObservationsOf(e)) >= 3

\* the tables are created from a table that holds rows with a sector, which
\* reach the sector tables, and a row without one, which reaches both ticker tables
C19_Witness ==
  /\ views = FiveViews
  /\ \E r \in curated : r.view \in SectorViews
  /\ \E e \in NullSectorRows :
       /\ ContributesTo(e, "ticker_monthly_summary")
       /\ ContributesTo(e, "volatility_analysis")

\* the job runs a handler run has started
StartedBy(r) == SubSeq(jobRuns, r.first, r.first + r.count - 1)

\* C20 as stated: every run of the Glue trigger handler on an event with n
\* records has started exactly n job runs, the i-th with --S3_INPUT_PATH
\* s3://<bucket>/<key> of the i-th record, and has returned status 200.
C20_OneJobRunPerRecord ==
  \A r \in responses :
    /\ r.statusCode = 200
    /\ Len(StartedBy(r)) = Len(r.records)
    /\ \A i \in 1..Len(r.records) :
         /\ i <= Len(StartedBy(r))
         /\ StartedBy(r)[i].S3_INPUT_PATH = S3Path(r.records[i].bucket, r.records[i].key)

\* the places of text at which pat begins
Occurs(text, pat) ==
  {i \in 1..Len(text) :
     i + Len(pat) - 1 <= Len(text) /\ SubSeq(text, i, i + Len(pat) - 1) = pat}

RECURSIVE Substituted(_, _)
\* text from place i on, read once: a placeholder gives its value, any other
\* token gives itself
Substituted(text, i) ==
  IF i > Len(text) THEN <<>>
  ELSE IF i \in Occurs(text, Placeholder("CURATED_BUCKET"))
  THEN CURATED_BUCKET \o Substituted(text, i + 3)
  ELSE IF i \in Occurs(text, Placeholder("ACCOUNT_ID"))
  THEN <<ACCOUNT_ID>> \o Substituted(text, i + 3)
  ELSE <<text[i]>> \o Substituted(text, i + 1)

\* the file main() has just loaded
LoadedFile == files[SqlFiles[nView]]

\* C21: the text loadSQL returns is the text of the file with every
\* {CURATED_BUCKET} replaced by the curated bucket name and every
\* {ACCOUNT_ID} by the account id, every other token kept in place, and it
\* contains neither placeholder.
C21_LoadSQLSubstitutes ==
  main = "start" =>
    /\ sql = Substituted(LoadedFile.text, 1)
    /\ Occurs(sql, Placeholder("CURATED_BUCKET")) = {}
    /\ Occurs(sql, Placeholder("ACCOUNT_ID")) = {}

\* a file with both placeholders and other text has been loaded
C21_Witness ==
  /\ main = "start"
  /\ Occurs(LoadedFile.text, Placeholder("CURATED_BUCKET")) # {}
  /\ Occurs(LoadedFile.text, Placeholder("ACCOUNT_ID")) # {}
  /\ \E i \in 1..Len(LoadedFile.text) : LoadedFile.text[i] = "SELECT"
  /\ \E i \in 1..Len(sql) : sql[i] = "SELECT"

\* the entries of results about the query at place q
EntriesFor(q) == {results[i] : i \in {j \in 1..Len(results) : results[j].query = q}}

\* the queries Athena has queued or is running
InAthena == {q \in 1..Len(queries) : queries[q].state \in {"QUEUED", "RUNNING"}}

\* C22: the script starts its queries in the order of the five views and
\* waits for one query at a time: a query is started only after
\* executeQuery has returned for each earlier one, having seen a state other
\* than RUNNING/QUEUED or caught an error; and while no call has raised, at
\* most one query is queued or running in Athena.
C22_OneQueryAtATimeInOrder ==
  /\ \A i, j \in 1..Len(queries) : i < j => queries[i].view < queries[j].view
  /\ \A q \in 1..Len(queries) :
       IF q = Len(queries) /\ main = "poll"
       THEN EntriesFor(q) = {}
       ELSE /\ Cardinality(EntriesFor(q)) = 1
            /\ \A e \in EntriesFor(q) :
                 e.status \notin {"QUEUED", "RUNNING"} \/ ~e.success
  /\ nRaised = 0 => Cardinality(InAthena) <= 1

\* the script has ended after starting all five queries, one of them given
\* up on a polling error
C22_Witness ==
  /\ main = "end"
  /\ Len(queries) = Len(SqlFiles)
  /\ \E q \in 1..Len(queries) : \E e \in EntriesFor(q) : e.status \in {"QUEUED", "RUNNING"}

\* the script has ended, with or without its summary
ScriptEnded == main \in {"end", "rejected"}

\* the number of the first view whose SQL file is missing, 0 when none is
FirstMissing ==
  IF \A i \in 1..Len(SqlFiles) : files[SqlFiles[i]].exists THEN 0
  ELSE CHOOSE i \in 1..Len(SqlFiles) :
         /\ ~files[SqlFiles[i]].exists
         /\ \A j \in 1..(i - 1) : files[SqlFiles[j]].exists

\* C23 as stated: whatever fails for one view (its query cannot be started,
\* ends FAILED or CANCELLED, or its SQL file cannot be loaded), the script
\* goes on to the later views and ends with its result summary, which has
\* one entry per view.
C23_FailureDoesNotStopScript ==
  /\ main # "rejected"
  /\ main \in {"summary", "end"} =>
       /\ Len(results) = Len(SqlFiles)
       /\ \A i \in 1..Len(results) : results[i].name = ScriptViews[i]

\* C24: executeQuery returns to main() whatever Athena does, and it returns
\* true exactly when the query was started and the last state Athena
\* reported is SUCCEEDED; on a start error, a polling error, FAILED or
\* CANCELLED it returns false. main() rejects only on a missing SQL file.
C24_ExecuteQueryTrueIffSucceeded ==
  /\ \A i \in 1..Len(results) :
       results[i].success <=> (results[i].query # 0 /\ results[i].status = "SUCCEEDED")
  /\ \A i \in 1..Len(results) :
       results[i].query # 0 /\ results[i].success =>
         queries[results[i].query].state = "SUCCEEDED"
  /\ main = "rejected" => FirstMissing = nView

\* one run has had a query succeed, a query cancelled, a query fail and a
\* call that raised
C24_Witness ==
  /\ main = "end"
  /\ \E i \in 1..Len(results) : results[i].success
  /\ \E i \in 1..Len(results) : results[i].status = "CANCELLED"
  /\ \E i \in 1..Len(results) : results[i].status = "FAILED"
  /\ \E i \in 1..Len(results) : results[i].status \in {"none", "QUEUED", "RUNNING"}

\* C25: the wait for a query ends only on a reported state that is neither
\* RUNNING nor QUEUED (or on a call that raises), however many turns of the
\* loop have found the query queued or running; and when Athena brings
\* every query to an end, the script ends.
C25_WaitsUntilTerminalThenEnds ==
  /\ [][main = "poll" /\ main' # "poll" =>
          nRaised' > nRaised \/ status' \notin {"QUEUED", "RUNNING"}]_vars
  /\ [][main = "poll" /\ status' \in {"QUEUED", "RUNNING"} /\ nRaised' = nRaised =>
          main' = "poll"]_vars
  /\ <>ScriptEnded

\* the script has ended with its summary after a wait whose loop found
\* the query queued or running as often as is counted
C25_Witness ==
  /\ main = "end"
  /\ polls = MaxPolls
  /\ results[Len(results)].success

\* the rows of curated table v
TableOf(rows, v) == {r \in rows : r.view = v}

\* C26: a derived table that exists is left as it is by every step, the
\* view-creation step included: CREATE TABLE IF NOT EXISTS neither rebuilds
\* it nor adds the observations written since it was created.
C26_ExistingTablesUnchanged ==
  [][\A v \in views : v \in views' /\ TableOf(curated', v) = TableOf(curated, v)]_vars

\* the view-creation step has run twice, observations were added after the
\* tables were created, and the tables are not what the statements would
\* give on the table as it is now
C26_Witness ==
  /\ Cardinality(log) = MaxCreates
  /\ views = FiveViews
  /\ invocations # {}
  /\ curated # {}
  /\ curated # CreateViews(TableRows(processed))

\* the job runs the handler is to start for an event, in record order
RunsFor(records) == [i \in 1..Len(records) |-> JobRun(records[i])]

\* C27: every run of the Glue trigger handler starts at the first record of
\* its event whatever runs were started before: the runs it starts are those
\* of the records before the one start_job_run raised on, the records from
\* that one on are not started, and nothing keeps a redelivered event from
\* starting a second run for a record.
C27_HandlerKeepsNoProgress ==
  \A r \in responses :
    /\ StartedBy(r) = SubSeq(RunsFor(r.records), 1, r.count)
    /\ r.error = "none" <=> r.count = Len(r.records)
    /\ r.error # "none" => r.statusCode # 200

\* an event of two records was delivered twice: each time the handler failed
\* at the second record, and the first record has two job runs
C27_Witness ==
  \E r1, r2 \in responses :
    /\ r1.records = r2.records
    /\ Len(r1.records) = 2
    /\ r1.first < r2.first
    /\ r1.error # "none" /\ r2.error # "none"
    /\ r1.count = 1 /\ r2.count = 1
    /\ jobRuns[r1.first] = jobRuns[r2.first]

\* the raw-bucket notifications that start a transform
TransformTriggers ==
  {n \in NotificationsOf(RawBucket) : n.target \in {TransformFn, TriggerFn}}

\* every key the fetcher can write
FetcherKeys ==
  {s3_key(t, ZeroPad(y, 4), ZeroPad(m, 2), ZeroPad(d, 2), FormatDate(y, m, d)) :
     t \in Tickers, y \in Years, m \in Months, d \in Days}

\* keys of the raw bucket that do not end in .csv
NonCsvKeys == {[k EXCEPT !.ext = x] : k \in FetcherKeys, x \in {".json", ".csv.bak", ""}}

\* C28: a raw-bucket notification that starts a transform has the filter
\* prefix raw/ and suffix .csv (Lambda transform) or suffix .csv (Glue
\* trigger); every key the fetcher writes matches it and no key without the
\* .csv suffix does; in the deployed app every object the fetcher has
\* written has its S3 event, and every S3 event is about a .csv key.
C28_FetchedKeysMatchFilter ==
  /\ \A n \in TransformTriggers :
       /\ n.target = TransformFn => n.prefix = "raw/" /\ n.suffix = ".csv"
       /\ n.target = TriggerFn => n.prefix = "" /\ n.suffix = ".csv"
       /\ \A k \in FetcherKeys : Matches(n, k)
       /\ \A k \in NonCsvKeys : ~Matches(n, k)
  /\ \A e \in pending \cup log : e.cause = "s3" => e.key.ext = ".csv"
  /\ \A n \in TransformTriggers : \A o \in raw :
       app = "deployed" =>
         \E e \in pending \cup log : e.cause = "s3" /\ e.fn = n.target /\ e.key = o.key

\* the deployed app has the Glue trigger's notification, the fetcher has
\* written an object and S3 has invoked the trigger function for it
C28_Witness ==
  /\ app = "deployed"
  /\ \E n \in TransformTriggers : n.target = TriggerFn
  /\ \E o \in raw : \E e \in log : e.cause = "s3" /\ e.fn = TriggerFn /\ e.key = o.key

\* a stack has been constructed with the Lambda transform's notification
C28_LambdaFilterConstructed == \E n \in TransformTriggers : n.target = TransformFn

\* every resource the stacks of lib/ can construct: those of the app and those
\* of the two stacks a deployed app does not have
AllConstructs ==
  resources \cup LambdaCuratedStackResources \cup LambdaTransformStackResources("true")

\* the role (or function) whose grants a function, job or crawler runs with
RoleOf(fn) ==
  CASE fn = FetchFn -> "StockDataFetchLambdaRole"
    [] fn = TransformFn -> "StockTransformLambdaRole"
    [] fn \in {GlueJobName, CrawlerName, TriggerFn} -> "StockDataGlueETLRole"
    [] OTHER -> fn

\* the buckets a function can write, directly or through the job it starts
WritableBy(fn) ==
  {g.bucket : g \in {r \in AllConstructs : /\ r.kind = "Grant"
                                          /\ r.name = RoleOf(fn)
                                          /\ r.state \in {"write", "readwrite"}}}

\* place of a bucket in the pipeline
Stage(bucket) ==
  CASE bucket = RawBucket -> 1
    [] bucket = ProcessedBucket -> 2
    [] bucket = CuratedBucket -> 3
    [] OTHER -> 4

\* the grants and notifications let data flow forward only
NoFeedback ==
  /\ WritableBy(FetchFn) \subseteq {RawBucket}
  /\ WritableBy(TransformFn) \subseteq {ProcessedBucket}
  /\ WritableBy(GlueJobName) \subseteq {ProcessedBucket}
  /\ WritableBy(CuratedFn) = {CuratedBucket}
  /\ \A n \in AllConstructs :
       n.kind = "Notification" =>
         /\ n.bucket # CuratedBucket
         /\ \A b \in WritableBy(n.target) : Stage(b) > Stage(n.bucket)

\* what one invocation changes: the bucket of its function and no other
WritesOwnBucket ==
  \A e \in log' \ log :
    /\ e.fn = FetchFn => UNCHANGED <<processed, curated>>
    /\ e.fn \in {TransformFn, GlueJobName} => UNCHANGED <<raw, curated>>
    /\ e.fn = CuratedFn => UNCHANGED <<raw, processed>>
    /\ e.fn \in {TriggerFn, CrawlerName} => UNCHANGED <<raw, processed, curated>>

\* C29: the fetcher can write only the raw bucket, the transform only the
\* processed bucket, the curated-views function only the curated bucket, no
\* notification is attached to the curated bucket and every notification
\* targets a function that writes further down the pipeline; every
\* invocation changes its own bucket only; and with every trigger switched
\* on the invocations a firing or a manual start causes come to an end:
\* eventually no invocation is outstanding, for good.
C29_NoFeedbackLoop ==
  /\ []NoFeedback
  /\ [][WritesOwnBucket]_vars
  /\ <>[](pending = {})

\* a schedule firing has run the fetcher, S3 has invoked the trigger for the
\* fetched file, the job has written the processed bucket, and nothing is
\* outstanding
C29_Witness ==
  /\ pending = {}
  /\ \E root \in 1..(nFire + nManual) :
       /\ \E e \in log : e.root = root /\ e.fn = FetchFn /\ e.cause = "schedule"
       /\ \E e \in log : e.root = root /\ e.fn = TriggerFn /\ e.cause = "s3"
       /\ \E e \in log : e.root = root /\ e.fn = GlueJobName /\ e.cause = "lambda"
  /\ raw # {}
  /\ processed # {}

====
